---- MODULE Spec2Model ----
(***************************************************************************)
(* Model of build_plugin.py: the release script that validates the working *)
(* directory, reads the version, scaffolds the plugin directory and then   *)
(* shells out to docker, git and gh.  A text is a sequence of one-character *)
(* strings (fixed template texts are a single token).                       *)
(***************************************************************************)
EXTENDS Integers, Sequences, FiniteSets, TLC

VARIABLES
    files,          \* working directory: file name -> content, for the files that exist
    pluginDirExists,\* whether the directory softaculous/ exists
    pluginFiles,    \* softaculous/: file name -> [content, mode]
    pc,             \* position of main(): the next call it makes
    version,        \* main()'s local variable `version`
    log,            \* build_plugin.log of the current process, one record per message
    images,         \* tags of the images `docker build` produced
    registry,       \* tags `docker push` published
    staged,         \* whether `git add .` staged changes not yet committed
    commits,        \* versions named by the local commits, oldest first
    pushedCommits,  \* how many of the local commits `git push` published
    releases,       \* versions `gh release create` released
    runs,           \* how many times the script was started
    edits,          \* how many times somebody else changed the VERSION file
    touched,        \* somebody else changed the working directory during this run
    noPriorFiles    \* the working directory was empty before the first run

vars == <<files, pluginDirExists, pluginFiles, pc, version, log, images, registry,
          staged, commits, pushedCommits, releases, runs, edits, touched, noPriorFiles>>

\* ---------------------------------------------------------------- bounds
MaxRuns == 2
MaxEdits == 1

\* ---------------------------------------------------------------- texts
DefaultVersion == <<"1", ".", "0", ".", "0">>
DefaultRequirements == <<"requests==2.31.0\nPyYAML==6.0.1\npython-dotenv==1.0.0\n">>

\* Contents the VERSION file may hold when the script did not write it.
VersionContents ==
    { <<"2", ".", "3", ".", "1", "\n">>,
      <<" ", "1", "\"", "\\", "\n">> }

\* Contents of requirements.txt when the script did not write it.
RequirementsContents == { <<"flask==3.0.0\n">> }

Whitespace == {" ", "\n", "\t", "\r"}

RECURSIVE LStrip(_)
LStrip(s) == IF s # <<>> /\ Head(s) \in Whitespace THEN LStrip(Tail(s)) ELSE s

RECURSIVE RStrip(_)
RStrip(s) ==
    IF s # <<>> /\ s[Len(s)] \in Whitespace THEN RStrip(SubSeq(s, 1, Len(s) - 1)) ELSE s

\* str.strip()
Strip(s) == RStrip(LStrip(s))

\* ---------------------------------------------------------------- logging
Entry(level, kind, msg, vers) == [level |-> level, kind |-> kind, msg |-> msg, vers |-> vers]

Info(msg, vers) == Entry("INFO", "step", msg, vers)
Error(msg, vers) == Entry("ERROR", "step", msg, vers)

\* ---------------------------------------------------------------- validate_project_structure
\* open(name, 'w') followed by f.write(content) in the working directory
WriteFile(fs, name, content) ==
    [n \in DOMAIN fs \cup {name} |-> IF n = name THEN content ELSE fs[n]]

\* mutant: the default is written only into an empty working directory
ValidateVersionWhenBothMissing(fs) ==
    IF "VERSION" \notin DOMAIN fs /\ "requirements.txt" \notin DOMAIN fs
    THEN WriteFile(fs, "VERSION", DefaultVersion)
    ELSE fs

\* mutant: the VERSION file is never created
ValidateVersionSkipped(fs) == fs

ValidateVersion(fs) ==
    IF "VERSION" \notin DOMAIN fs THEN WriteFile(fs, "VERSION", DefaultVersion) ELSE fs

\* mutant: requirements.txt is written whether it exists or not
ValidateRequirementsOverwrites(fs) == WriteFile(fs, "requirements.txt", DefaultRequirements)

ValidateRequirements(fs) ==
    IF "requirements.txt" \notin DOMAIN fs
    THEN WriteFile(fs, "requirements.txt", DefaultRequirements)
    ELSE fs

ValidateFiles(fs) == ValidateRequirements(ValidateVersion(fs))

ValidateLog(fs) ==
    (IF "VERSION" \notin DOMAIN fs
     THEN <<Info("Created VERSION file with initial version 1.0.0", <<>>)>> ELSE <<>>)
    \o
    (IF "requirements.txt" \notin DOMAIN fs
     THEN <<Info("Created requirements.txt file with initial dependencies", <<>>)>> ELSE <<>>)

\* ---------------------------------------------------------------- json.dump
\* mutant: backslashes are written as they are
JsonEscapeQuotesOnly(c) == IF c = "\"" THEN <<"\\", "\"">> ELSE <<c>>

\* The escapes json.dump applies to the characters of a string.
JsonEscape(c) ==
    CASE c = "\"" -> <<"\\", "\"">>
      [] c = "\\" -> <<"\\", "\\">>
      [] c = "\n" -> <<"\\", "n">>
      [] c = "\t" -> <<"\\", "t">>
      [] c = "\r" -> <<"\\", "r">>
      [] OTHER    -> <<c>>

RECURSIVE JsonEscapeAll(_)
JsonEscapeAll(s) == IF s = <<>> THEN <<>> ELSE JsonEscape(Head(s)) \o JsonEscapeAll(Tail(s))

JsonString(s) == <<"\"">> \o JsonEscapeAll(s) \o <<"\"">>

\* The members of a dict, in insertion order, separated by commas.
RECURSIVE JsonMembers(_)
JsonMembers(d) ==
    IF d = <<>> THEN <<>>
    ELSE JsonString(<<Head(d)[1]>>) \o <<":">> \o JsonString(Head(d)[2])
         \o (IF Len(d) > 1 THEN <<",">> ELSE <<>>) \o JsonMembers(Tail(d))

\* json.dump(d, f) of a dict of strings, given as a sequence of <<key, value>>
JsonDump(d) == <<"{">> \o JsonMembers(d) \o <<"}">>

\* The reader of the descriptor: a JSON parser for an object of strings.
JsonUnescape(c) ==
    CASE c = "n" -> "\n"
      [] c = "t" -> "\t"
      [] c = "r" -> "\r"
      [] OTHER   -> c

\* s[i] is the first character after an opening quote
RECURSIVE JsonReadString(_, _, _)
JsonReadString(s, i, acc) ==
    IF i > Len(s) THEN [val |-> acc, next |-> i, ok |-> FALSE]
    ELSE IF s[i] = "\"" THEN [val |-> acc, next |-> i + 1, ok |-> TRUE]
    ELSE IF s[i] = "\\" /\ i < Len(s)
         THEN JsonReadString(s, i + 2, Append(acc, JsonUnescape(s[i + 1])))
    ELSE JsonReadString(s, i + 1, Append(acc, s[i]))

RECURSIVE JsonReadMembers(_, _, _)
JsonReadMembers(s, i, acc) ==
    IF i > Len(s) THEN [members |-> acc, ok |-> FALSE]
    ELSE IF s[i] = "}" THEN [members |-> acc, ok |-> i = Len(s)]
    ELSE IF s[i] = "," THEN JsonReadMembers(s, i + 1, acc)
    ELSE IF s[i] # "\"" THEN [members |-> acc, ok |-> FALSE]
    ELSE LET key == JsonReadString(s, i + 1, <<>>)
         IN  IF ~key.ok \/ key.next + 1 > Len(s) \/ s[key.next] # ":"
                \/ s[key.next + 1] # "\""
             THEN [members |-> acc, ok |-> FALSE]
             ELSE LET val == JsonReadString(s, key.next + 2, <<>>)
                  IN  IF ~val.ok THEN [members |-> acc, ok |-> FALSE]
                      ELSE JsonReadMembers(s, val.next,
                                           Append(acc, <<key.val, val.val>>))

JsonLoad(s) ==
    IF s = <<>> \/ s[1] # "{" THEN [members |-> <<>>, ok |-> FALSE]
    ELSE JsonReadMembers(s, 2, <<>>)

\* ---------------------------------------------------------------- create_plugin_structure
ExecMode == 493         \* 0o755
DefaultFileMode == 420  \* 0o644: the mode open(..., 'w') gives a file it creates

MainPyText == <<"softaculous_main.py text">>
IndexHtmlText == <<"index.html text">>
InstallShText == <<"install.sh text">>

\* The dict written to info.json
InfoDict(v) ==
    << <<"title", <<"Softaculous Application Installer">>>>,
       <<"name", <<"softaculous">>>>,
       <<"ps", <<"One-click installation for 400+ web applications">>>>,
       <<"versions", v>>,
       <<"checks", <<"/www/server/panel/plugin/softaculous">>>>,
       <<"author", <<"Softaculous Team">>>>,
       <<"home", <<"https://softaculous.com">>>> >>

\* mutant: the file is opened with 'a'
WritePluginFileAppends(dir, name, content) ==
    [n \in DOMAIN dir \cup {name} |->
        IF n = name
        THEN IF name \in DOMAIN dir
             THEN [content |-> dir[name].content \o content, mode |-> dir[name].mode]
             ELSE [content |-> content, mode |-> DefaultFileMode]
        ELSE dir[n]]

\* with open(path, 'w') as f: f.write(content): an existing file keeps its mode
WritePluginFile(dir, name, content) ==
    [n \in DOMAIN dir \cup {name} |->
        IF n = name
        THEN [content |-> content,
              mode |-> IF name \in DOMAIN dir THEN dir[name].mode ELSE DefaultFileMode]
        ELSE dir[n]]

\* os.chmod(path, mode)
Chmod(dir, name, mode) == [dir EXCEPT ![name].mode = mode]

WriteMainPy(dir) ==
    Chmod(WritePluginFile(dir, "softaculous_main.py", MainPyText),
          "softaculous_main.py", ExecMode)

WriteInfoJson(dir, v) == WritePluginFile(dir, "info.json", JsonDump(InfoDict(v)))

WriteIndexHtml(dir) == WritePluginFile(dir, "index.html", IndexHtmlText)

WriteInstallSh(dir) ==
    Chmod(WritePluginFile(dir, "install.sh", InstallShText), "install.sh", ExecMode)

\* mutant: index.html is not written
CreatePluginStructureNoIndex(dir, v) == WriteInstallSh(WriteInfoJson(WriteMainPy(dir), v))

\* The files of softaculous/ after create_plugin_structure(v)
CreatePluginStructure(dir, v) ==
    WriteInstallSh(WriteIndexHtml(WriteInfoJson(WriteMainPy(dir), v)))

CreatePluginLog ==
    << Info("Created and set permissions for softaculous_main.py", <<>>),
       Info("Created info.json", <<>>),
       Info("Created index.html", <<>>),
       Info("Created and set permissions for install.sh", <<>>) >>

\* ---------------------------------------------------------------- initial state
\* softaculous/ as somebody else may have left it: a descriptor that is not the
\* script's, readable by its owner alone, and a file the script does not write.
StalePluginFiles ==
    [n \in {"info.json", "notes.txt"} |->
        IF n = "info.json" THEN [content |-> <<"{", "}">>, mode |-> 384]
        ELSE [content |-> <<"keep">>, mode |-> DefaultFileMode]]

NoFiles == [n \in {} |-> <<>>]

InitialFiles ==
    { fs \in UNION { [D -> VersionContents \cup RequirementsContents \cup {DefaultVersion}] :
                     D \in SUBSET {"VERSION", "requirements.txt"} } :
        /\ "VERSION" \in DOMAIN fs => fs["VERSION"] \in VersionContents \cup {DefaultVersion}
        /\ "requirements.txt" \in DOMAIN fs => fs["requirements.txt"] \in RequirementsContents }

Init ==
    /\ files \in InitialFiles
    /\ \/ pluginDirExists = FALSE /\ pluginFiles = NoFiles
       \/ pluginDirExists = TRUE /\ pluginFiles \in {NoFiles, StalePluginFiles}
    /\ pc = "idle"
    /\ version = <<>>
    /\ log = <<>>
    /\ images = {}
    /\ registry = {}
    /\ staged = FALSE
    /\ commits = <<>>
    /\ pushedCommits = 0
    /\ releases = {}
    /\ runs = 0
    /\ edits = 0
    /\ touched = FALSE
    /\ noPriorFiles = (files = NoFiles /\ ~pluginDirExists)

\* ---------------------------------------------------------------- main
Terminal == {"idle", "done", "aborted"}

World == <<images, registry, staged, commits, pushedCommits, releases>>

\* The script is started: logging is set up with filemode 'w' and main() calls
\* validate_project_structure().
Validate ==
    /\ pc \in Terminal
    /\ runs < MaxRuns
    /\ runs' = runs + 1
    /\ files' = ValidateFiles(files)
    /\ log' = ValidateLog(files)
    /\ version' = <<>>
    /\ touched' = FALSE
    /\ pc' = "generate_version"
    /\ UNCHANGED <<pluginDirExists, pluginFiles, World, edits, noPriorFiles>>

\* main()'s except clause: log and re-raise
MainFails(entries) ==
    /\ log' = log \o entries \o <<Error("Build and release process failed", <<>>)>>
    /\ pc' = "aborted"

ReadVersion(fs) == Strip(fs["VERSION"])

GenerateVersion ==
    /\ pc = "generate_version"
    /\ IF "VERSION" \in DOMAIN files
       THEN /\ version' = ReadVersion(files)
            /\ log' = Append(log, Info("Current version", <<ReadVersion(files)>>))
            /\ pc' = "create_plugin_structure"
       ELSE /\ MainFails(<<Error("VERSION file not found", <<>>)>>)
            /\ UNCHANGED version
    /\ UNCHANGED <<files, pluginDirExists, pluginFiles, World, runs, edits, touched,
                   noPriorFiles>>

CreatePlugin ==
    /\ pc = "create_plugin_structure"
    /\ pluginDirExists' = TRUE
    /\ pluginFiles' = CreatePluginStructure(pluginFiles, version)
    /\ log' = log \o CreatePluginLog
    /\ pc' = "docker_build"
    /\ UNCHANGED <<files, version, World, runs, edits, touched, noPriorFiles>>

\* run_command(command): the record it logs, by the command's exit status
ExitCodes == {0, 1}

CommandEntry(name, vers, exit) ==
    Entry(IF exit = 0 THEN "INFO" ELSE "ERROR", "cmd", name, vers)

\* mutant: run_command logs the failure and the command is tried again
CommandFailsRetried(name, vers, exit, stepMsg) ==
    /\ log' = Append(log, CommandEntry(name, vers, exit))
    /\ UNCHANGED pc
    /\ UNCHANGED World

\* A command exits non-zero: run_command logs and re-raises, the step's except
\* clause logs and re-raises, main() logs and re-raises.
CommandFails(name, vers, exit, stepMsg) ==
    /\ MainFails(<<CommandEntry(name, vers, exit), Error(stepMsg, <<>>)>>)
    /\ UNCHANGED World

Frame == UNCHANGED <<files, pluginDirExists, pluginFiles, version, runs, edits, touched,
                     noPriorFiles>>

DockerBuildArgs(v) == <<v>>

\* mutant: an image that exists already is not built again
DockerBuildSkipsBuiltImage ==
    /\ pc = "docker_build"
    /\ IF version \in images
       THEN /\ pc' = "docker_push"
            /\ UNCHANGED <<log, World>>
       ELSE \E exit \in ExitCodes :
              IF exit = 0
              THEN /\ log' = Append(log, CommandEntry("docker build", DockerBuildArgs(version), exit))
                   /\ images' = images \cup {version}
                   /\ pc' = "docker_push"
                   /\ UNCHANGED <<registry, staged, commits, pushedCommits, releases>>
              ELSE CommandFails("docker build", DockerBuildArgs(version), exit,
                                "Failed to build or push Docker image")
    /\ Frame

DockerBuild ==
    /\ pc = "docker_build"
    /\ \E exit \in ExitCodes :
         IF exit = 0
         THEN /\ log' = Append(log, CommandEntry("docker build", DockerBuildArgs(version), exit))
              /\ images' = images \cup {version}
              /\ pc' = "docker_push"
              /\ UNCHANGED <<registry, staged, commits, pushedCommits, releases>>
         ELSE CommandFails("docker build", DockerBuildArgs(version), exit,
                           "Failed to build or push Docker image")
    /\ Frame

DockerPushArgs(v) == <<v>>

\* mutant: build_docker_image() does not push
DockerPushSkipped ==
    /\ pc = "docker_push"
    /\ log' = Append(log, Info("Built and pushed Docker image", <<version>>))
    /\ pc' = "git_add"
    /\ UNCHANGED World
    /\ Frame

DockerPush ==
    /\ pc = "docker_push"
    /\ \E exit \in ExitCodes :
         IF exit = 0
         THEN /\ log' = log \o <<CommandEntry("docker push", DockerPushArgs(version), exit),
                                 Info("Built and pushed Docker image", <<version>>)>>
              /\ registry' = registry \cup {version}
              /\ pc' = "git_add"
              /\ UNCHANGED <<images, staged, commits, pushedCommits, releases>>
         ELSE CommandFails("docker push", DockerPushArgs(version), exit,
                           "Failed to build or push Docker image")
    /\ Frame

GitAdd ==
    /\ pc = "git_add"
    /\ \E exit \in ExitCodes :
         IF exit = 0
         THEN /\ log' = Append(log, CommandEntry("git add", <<>>, exit))
              /\ staged' = TRUE
              /\ pc' = "git_commit"
              /\ UNCHANGED <<images, registry, commits, pushedCommits, releases>>
         ELSE CommandFails("git add", <<>>, exit, "Failed to commit and push changes")
    /\ Frame

GitCommitArgs(v) == <<v>>

GitCommit ==
    /\ pc = "git_commit"
    /\ \E exit \in ExitCodes :
         IF exit = 0
         THEN /\ log' = Append(log, CommandEntry("git commit", GitCommitArgs(version), exit))
              /\ commits' = Append(commits, version)
              /\ staged' = FALSE
              /\ pc' = "git_push"
              /\ UNCHANGED <<images, registry, pushedCommits, releases>>
         ELSE CommandFails("git commit", GitCommitArgs(version), exit,
                           "Failed to commit and push changes")
    /\ Frame

GitPush ==
    /\ pc = "git_push"
    /\ \E exit \in ExitCodes :
         IF exit = 0
         THEN /\ log' = log \o <<CommandEntry("git push", <<>>, exit),
                                 Info("Committed and pushed changes", <<version>>)>>
              /\ pushedCommits' = Len(commits)
              /\ pc' = "gh_release"
              /\ UNCHANGED <<images, registry, staged, commits, releases>>
         ELSE CommandFails("git push", <<>>, exit, "Failed to commit and push changes")
    /\ Frame

\* mutant: the release takes its version from the VERSION file again
GhReleaseArgsReread(v) ==
    IF "VERSION" \in DOMAIN files
    THEN <<ReadVersion(files), ReadVersion(files), ReadVersion(files)>>
    ELSE <<v, v, v>>

\* tag, title and notes of the release
GhReleaseArgs(v) == <<v, v, v>>

GhRelease ==
    /\ pc = "gh_release"
    /\ \E exit \in ExitCodes :
         IF exit = 0
         THEN /\ log' = log \o <<CommandEntry("gh release create", GhReleaseArgs(version), exit),
                                 Info("Created release", <<version>>),
                                 Info("Build and release process completed successfully", <<>>)>>
              /\ releases' = releases \cup {version}
              /\ pc' = "done"
              /\ UNCHANGED <<images, registry, staged, commits, pushedCommits>>
         ELSE CommandFails("gh release create", GhReleaseArgs(version), exit,
                           "Failed to create release")
    /\ Frame

\* ---------------------------------------------------------------- the operator's edits
\* Somebody else rewrites the VERSION file.
ExternalEdit ==
    /\ pc # "idle"
    /\ edits < MaxEdits
    /\ \E c \in VersionContents \cup {DefaultVersion} :
         files' = WriteFile(files, "VERSION", c)
    /\ edits' = edits + 1
    /\ touched' = TRUE
    /\ UNCHANGED <<pluginDirExists, pluginFiles, pc, version, log, World, runs, noPriorFiles>>

\* Somebody else removes the VERSION file.
ExternalDelete ==
    /\ pc # "idle"
    /\ edits < MaxEdits
    /\ "VERSION" \in DOMAIN files
    /\ files' = [n \in DOMAIN files \ {"VERSION"} |-> files[n]]
    /\ edits' = edits + 1
    /\ touched' = TRUE
    /\ UNCHANGED <<pluginDirExists, pluginFiles, pc, version, log, World, runs, noPriorFiles>>

Next ==
    \/ Validate
    \/ GenerateVersion
    \/ CreatePlugin
    \/ DockerBuild
    \/ DockerPush
    \/ GitAdd
    \/ GitCommit
    \/ GitPush
    \/ GhRelease
    \/ ExternalEdit
    \/ ExternalDelete

Spec == Init /\ [][Next]_vars

\* ---------------------------------------------------------------- reading the log
IsPrefix(a, b) == Len(a) <= Len(b) /\ SubSeq(b, 1, Len(a)) = a

IsCmd(e) == e.kind = "cmd"
IsOk(e) == e.level = "INFO"

Msgs(l) == [i \in 1..Len(l) |-> l[i].msg]

\* the commands run_command was called with in this run, in order
CmdEntries(l) == SelectSeq(l, IsCmd)
CmdNames(l) == Msgs(CmdEntries(l))

Logged(msg) == \E i \in 1..Len(log) : log[i].msg = msg

Commands ==
    <<"docker build", "docker push", "git add", "git commit", "git push",
      "gh release create">>

\* what a run logs, in order, as its steps and commands complete
Progress ==
    <<"Current version",
      "Created and set permissions for install.sh",
      "docker build", "docker push", "Built and pushed Docker image",
      "git add", "git commit", "git push", "Committed and pushed changes",
      "gh release create", "Created release",
      "Build and release process completed successfully">>

IsProgress(e) == IsOk(e) /\ \E i \in 1..Len(Progress) : Progress[i] = e.msg

ProgressTrace(l) == Msgs(SelectSeq(l, IsProgress))

\* how many commands have exited zero when main() is about to make the call pc names
CommandsDone(p) ==
    CASE p = "docker_push" -> 1
      [] p = "git_add"     -> 2
      [] p = "git_commit"  -> 3
      [] p = "git_push"    -> 4
      [] p = "gh_release"  -> 5
      [] p = "done"        -> 6
      [] OTHER             -> 0

Running == pc \notin Terminal

SuccessMsg == "Build and release process completed successfully"
FailureMsg == "Build and release process failed"
ScaffoldedMsg == "Created and set permissions for install.sh"
CreatedVersionMsg == "Created VERSION file with initial version 1.0.0"

\* how many entries of Progress a run has logged when main() is about to make the
\* call pc names
ProgressAt(p) ==
    CASE p = "generate_version"        -> 0
      [] p = "create_plugin_structure" -> 1
      [] p = "docker_build"            -> 2
      [] p = "docker_push"             -> 3
      [] p = "git_add"                 -> 5
      [] p = "git_commit"              -> 6
      [] p = "git_push"                -> 7
      [] p = "gh_release"              -> 9
      [] p = "done"                    -> 12
      [] OTHER                         -> 0

\* ---------------------------------------------------------------- C1
\* C1: in every run the steps happen in the order validate, read version, scaffold,
\* docker build/push, git add/commit/push, gh release: what the run has completed is
\* always the initial part of that order that its position names (nothing skipped,
\* nothing done twice), validation has happened before anything else, and the
\* success message is logged only when the six commands have exited zero in order.
C1_StepsInOrder ==
    /\ IsPrefix(ProgressTrace(log), Progress)
    /\ pc \notin {"idle", "aborted"} =>
          ProgressTrace(log) = SubSeq(Progress, 1, ProgressAt(pc))
    /\ (pc # "idle" /\ ~touched) => {"VERSION", "requirements.txt"} \subseteq DOMAIN files
    /\ Logged(ScaffoldedMsg) =>
          pluginDirExists /\ "install.sh" \in DOMAIN pluginFiles
    /\ (Logged(SuccessMsg) \/ pc = "done") =>
          /\ pc = "done"
          /\ CmdNames(log) = Commands
          /\ \A i \in 1..Len(CmdEntries(log)) : IsOk(CmdEntries(log)[i])
          /\ log[Len(log)].msg = SuccessMsg

\* a second run has completed all six steps
C1_Witness == pc = "done" /\ runs = 2 /\ CmdNames(log) = Commands

\* ---------------------------------------------------------------- C2
\* a failed command is the last of its run, and the run is aborted
C2_FailureInv ==
    LET cmds == CmdEntries(log)
    IN  /\ IsPrefix(Msgs(cmds), Commands)
        /\ \A i \in 1..Len(cmds) :
              ~IsOk(cmds[i]) =>
                 /\ i = Len(cmds)
                 /\ pc = "aborted"
                 /\ ~Logged(SuccessMsg)
                 /\ log[Len(log)] = Error(FailureMsg, <<>>)
        /\ pc = "aborted" => log # <<>> /\ log[Len(log)] = Error(FailureMsg, <<>>)

\* an aborted run invokes nothing
C2_AbortedStays ==
    (pc = "aborted" /\ pc' = "aborted") => (log' = log /\ UNCHANGED World)

\* C2: a command that exits non-zero is the last command of its run: it is not
\* retried, no later command is invoked, the run is aborted with the failure logged
\* and the success message absent; the commands invoked are always an initial part
\* of the six-command sequence, ending at the failing command; an aborted run
\* invokes nothing more.
C2_FirstFailureFatal == []C2_FailureInv /\ [][C2_AbortedStays]_vars

\* docker build has exited non-zero: it is the only command of the run
C2_Witness ==
    /\ pc = "aborted"
    /\ CmdNames(log) = <<"docker build">>
    /\ ~IsOk(CmdEntries(log)[1])

\* ---------------------------------------------------------------- C3
\* a step of the model in which validate_project_structure() runs
ValidateStep == runs' = runs + 1

\* the files that exist keep their content over a call of the validator
C3_ExistingKept ==
    ValidateStep => \A f \in DOMAIN files : f \in DOMAIN files' /\ files'[f] = files[f]

\* the validator applied to its own result
C3_Twice ==
    /\ ValidateFiles(ValidateFiles(files)) = ValidateFiles(files)
    /\ \A f \in DOMAIN files : ValidateFiles(files)[f] = files[f]

\* C3: validate_project_structure() leaves every file that exists before the call
\* with the content it had, whatever that content is, and calling it again on its
\* own result changes nothing.
C3_ValidatorKeepsFiles == [][C3_ExistingKept]_vars /\ []C3_Twice

\* the validator has run a second time over a VERSION file and a requirements.txt
\* that are not the defaults
C3_Witness ==
    /\ runs = 2
    /\ pc = "generate_version"
    /\ ~touched
    /\ files["VERSION"] \in VersionContents
    /\ files["requirements.txt"] \in RequirementsContents

\* ---------------------------------------------------------------- C4
\* what a call of the validator does to the VERSION file
C4_Step ==
    ValidateStep =>
        /\ "VERSION" \in DOMAIN files'
        /\ "VERSION" \notin DOMAIN files => files'["VERSION"] = DefaultVersion
        /\ "VERSION" \in DOMAIN files => files'["VERSION"] = files["VERSION"]
        /\ ("VERSION" \notin DOMAIN files) <=>
              (\E i \in 1..Len(log') : log'[i].msg = CreatedVersionMsg)

\* C4: when VERSION is absent at the call, validate_project_structure() leaves it
\* existing with content 1.0.0, and it writes (and logs) the default only then,
\* whether or not requirements.txt exists.
C4_DefaultVersionWhenAbsent == [][C4_Step]_vars

\* the default was written while requirements.txt was there already
C4_Witness ==
    /\ pc = "generate_version"
    /\ ~touched
    /\ Logged(CreatedVersionMsg)
    /\ ~Logged("Created requirements.txt file with initial dependencies")
    /\ files["VERSION"] = DefaultVersion

\* ---------------------------------------------------------------- C5
GeneratedNames == {"softaculous_main.py", "info.json", "index.html", "install.sh"}

\* the scaffolding step of this run is over
Scaffolded == Logged(ScaffoldedMsg)

\* C5 as stated: with no prior files, after the scaffolding step the plugin
\* directory holds exactly five artifacts.
C5_FiveArtifacts ==
    (noPriorFiles /\ Scaffolded) => Cardinality(DOMAIN pluginFiles) = 5

\* C5 (amended): with no prior files, after the scaffolding step the plugin
\* directory holds exactly the four files softaculous_main.py, info.json,
\* index.html and install.sh.
C5_FourArtifacts ==
    (noPriorFiles /\ Scaffolded) => (pluginDirExists /\ DOMAIN pluginFiles = GeneratedNames)

C5_Witness == noPriorFiles /\ runs = 1 /\ pc = "docker_build"

\* ---------------------------------------------------------------- C6
\* the version strings main() can pass on
Versions == { Strip(c) : c \in VersionContents \cup {DefaultVersion} }

\* C6: whenever main() is about to call create_plugin_structure, whatever the
\* plugin directory holds (nothing, somebody else's files, the files of an earlier
\* call with any version), for every version v a second create_plugin_structure(v)
\* leaves every file with the content and mode the first one gave it, and the call
\* is possible when the directory exists already.
C6_Idempotent ==
    pc = "create_plugin_structure" =>
        /\ \A v \in Versions :
              LET once == CreatePluginStructure(pluginFiles, v)
                  twice == CreatePluginStructure(once, v)
              IN  /\ DOMAIN twice = DOMAIN once
                  /\ \A n \in DOMAIN once :
                        twice[n].content = once[n].content /\ twice[n].mode = once[n].mode
        /\ ENABLED CreatePlugin

\* the directory holds the files of an earlier call with another version
C6_Witness ==
    /\ pc = "create_plugin_structure"
    /\ pluginDirExists
    /\ GeneratedNames \subseteq DOMAIN pluginFiles
    /\ pluginFiles["info.json"].content # JsonDump(InfoDict(version))

\* ---------------------------------------------------------------- C7
InfoKeys == {"title", "name", "ps", "versions", "checks", "author", "home"}

\* the value a parsed descriptor gives a key
ValueOf(members, key) ==
    LET i == CHOOSE i \in 1..Len(members) : members[i][1] = <<key>>
    IN  members[i][2]

KeysOf(members) == { members[i][1][1] : i \in 1..Len(members) }

\* the descriptor create_plugin_structure(v) leaves, parsed
InfoJsonFor(v) == JsonLoad(CreatePluginStructure(pluginFiles, v)["info.json"].content)

\* C7: for every version string v and every directory main() calls it on, the
\* info.json that create_plugin_structure(v) writes parses to an object with exactly the keys title, name, ps, versions,
\* checks, author, home, whose `versions` is v itself and whose other values are
\* the same for every v.
C7_InfoJson ==
    /\ pc = "create_plugin_structure" =>
          LET reference == InfoJsonFor(DefaultVersion)
          IN  \A v \in Versions :
                 LET parsed == InfoJsonFor(v)
                 IN  /\ parsed.ok
                     /\ Len(parsed.members) = Cardinality(InfoKeys)
                     /\ KeysOf(parsed.members) = InfoKeys
                     /\ ValueOf(parsed.members, "versions") = v
                     /\ \A k \in InfoKeys \ {"versions"} :
                           ValueOf(parsed.members, k) = ValueOf(reference.members, k)
    /\ Scaffolded =>
          LET written == JsonLoad(pluginFiles["info.json"].content)
          IN  /\ written.ok
              /\ KeysOf(written.members) = InfoKeys
              /\ ValueOf(written.members, "versions") = version

\* a descriptor was written for a version that holds a quote and a backslash
C7_Witness ==
    /\ Scaffolded
    /\ \E i \in 1..Len(version) : version[i] = "\\"
    /\ \E i \in 1..Len(version) : version[i] = "\""

\* ---------------------------------------------------------------- C8
\* the versions a run has put into its commands and messages
LoggedVersions == UNION { { log[i].vers[j] : j \in 1..Len(log[i].vers) } : i \in 1..Len(log) }

VersionReads == Len(SelectSeq(log, LAMBDA e : e.msg = "Current version"))

\* C8: a run reads the version once, after validation and before scaffolding, and
\* that value is the one in info.json, in the tags of docker build and docker push,
\* in the commit message and in the tag, title and notes of the release, whatever
\* happens to the VERSION file afterwards.
C8_OneVersion ==
    /\ VersionReads <= 1
    /\ VersionReads = 1 <=> pc \notin {"idle", "generate_version"} /\ Logged("Current version")
    /\ pc \in {"create_plugin_structure", "docker_build", "docker_push", "git_add",
               "git_commit", "git_push", "gh_release", "done"} => VersionReads = 1
    /\ Scaffolded => VersionReads = 1 /\ log[Len(ValidateLog(NoFiles)) + 1].msg # ScaffoldedMsg
    /\ LoggedVersions \subseteq {version}
    /\ Scaffolded =>
          ValueOf(JsonLoad(pluginFiles["info.json"].content).members, "versions") = version
    /\ \A i \in 1..Len(log) :
          /\ log[i].msg \in {"docker build", "docker push", "git commit"} =>
                log[i].vers = <<version>>
          /\ log[i].msg = "gh release create" => log[i].vers = <<version, version, version>>

\* the VERSION file was changed after the run read it, and the run released
C8_Witness ==
    /\ pc = "done"
    /\ touched
    /\ "VERSION" \in DOMAIN files
    /\ Strip(files["VERSION"]) # version

\* ---------------------------------------------------------------- C9
\* the step that follows an aborted run
C9_RestartStep ==
    (pc = "aborted" /\ pc' # "aborted") =>
        /\ pc' = "generate_version"
        /\ runs' = runs + 1
        /\ log' = ValidateLog(files)
        /\ CmdEntries(log') = <<>>
        /\ version' = <<>>

\* the step that aborts a run
C9_NoRollback ==
    (pc # "aborted" /\ pc' = "aborted") =>
        UNCHANGED <<files, pluginDirExists, pluginFiles, World>>

\* the commands a run has issued are those before its position
C9_Reissued ==
    pc \notin {"idle", "aborted"} =>
        CmdNames(log) = SubSeq(Commands, 1, CommandsDone(pc))

\* C9: the script keeps no record of progress: the step after an aborted run is a
\* fresh start at validation, with an empty log and no command counted as done; in
\* every run, later ones included, the commands issued so far are exactly those
\* before the run's position, whatever earlier runs built, pushed, committed or
\* released; and the step that aborts a run undoes nothing: files, plugin
\* directory, images, registry, index, commits and releases stay as they were.
C9_NoResumption == [][C9_RestartStep /\ C9_NoRollback]_vars /\ []C9_Reissued

\* a second run has built again the image that the first run built and pushed
\* before it aborted
C9_Witness ==
    /\ runs = 2
    /\ pc = "docker_push"
    /\ version \in registry
    /\ releases = {}
    /\ CmdNames(log) = <<"docker build">>

====
